---------------------------- MODULE Spec2Model ----------------------------
(***************************************************************************)
(* A model of the PostgreSQL schema loader, src/loaders/postgres.go.       *)
(*                                                                         *)
(* Go strings are TLA+ strings; TLC evaluates Len, \o, SubSeq, Head and    *)
(* Tail on them, so prefixes, suffixes, splitting, integer parsing and the *)
(* query-strip regular expression are computed character by character, as *)
(* the code computes them.                                                 *)
(*                                                                         *)
(* Every operation of the loader is a blocking call.  The pure ones        *)
(* (PgParseType, PgQueryStrip) and the ones that only post-process what    *)
(* the catalog queries return (PgTables, PgIndexColumns) are one action    *)
(* each; PgQueryColumns issues three database statements and is one action *)
(* per statement, so that calls of several workers interleave.             *)
(*                                                                         *)
(* Specifications: SpecIdx (PgIndexColumns), SpecTables (PgTables),        *)
(* SpecType (PgParseType), SpecStrip (PgQueryStrip, run repeatedly over    *)
(* the same lines), SpecQueryColumns (workers calling PgQueryColumns       *)
(* concurrently against one catalog) and SpecAnyHandle (one call of        *)
(* PgQueryColumns against any replies of a database handle).               *)
(***************************************************************************)
EXTENDS Integers, Sequences, FiniteSets, TLC

VARIABLES
    pc,            \* position of the sequential call being modelled
    cols,          \* PgIndexColumns: rows of models.PgIndexColumns
    colOrd,        \* PgIndexColumns: colOrd.Ord of models.PgGetColOrder
    idxFail,       \* PgIndexColumns: the catalog query that fails, or "none"
    idxRet,        \* PgIndexColumns: the returned (ret, err)
    rows,          \* PgTables: rows of models.PgTables
    sequences,     \* PgTables: rows of models.PgSequences
    tblFail,       \* PgTables: the catalog query that fails, or "none"
    tblRet,        \* PgTables: the returned (tables, err)
    dt,            \* PgParseType: the native type string
    nullable,      \* PgParseType: the nullable argument
    typeRet,       \* PgParseType: the returned (precision, nilVal, typ)
    query,         \* PgQueryStrip: the query lines, changed in place
    queryComments, \* PgQueryStrip: the comments, one more than the lines
    original,      \* PgQueryStrip: the lines before the first run
    lastInput,     \* PgQueryStrip: the lines the latest run was given
    stripRuns,     \* PgQueryStrip: the runs so far
    worker,        \* PgQueryColumns: each worker's call (position, locals,
                   \* result, and the database calls it made with their replies)
    session,       \* PgQueryColumns: the database session of each worker
    inspect,       \* PgQueryColumns: the query lines of each worker
    pgClass        \* PgQueryColumns: the temporary relations of the catalog

idxVars == <<cols, colOrd, idxFail, idxRet>>

tblVars == <<rows, sequences, tblFail, tblRet>>

typeVars == <<dt, nullable, typeRet>>

stripVars == <<query, queryComments, original, lastInput, stripRuns>>

qcVars == <<worker, session, inspect, pgClass>>

vars == <<pc, idxVars, tblVars, typeVars, stripVars, qcVars>>

-----------------------------------------------------------------------------
(* Bounds of the model. *)

\* longest colOrd.Ord string, in characters
MaxOrdLen == 5

\* most relations models.PgTables lists
MaxRows == 2

\* most sequences models.PgSequences lists
MaxSeqs == 2

\* most pieces (fragments of a line, line breaks) a query text is made of
MaxPieces == 6

\* most runs of PgQueryStrip over the same lines
MaxRuns == 2

\* workers that call PgQueryColumns concurrently
MaxWorkers == 2

\* most rows a database handle answers the namespace query with
MaxNspRows == 2

-----------------------------------------------------------------------------
(* Go strings and the library functions the loader calls on them. *)

\* All sequences of at most n elements of A.
SeqsUpTo(A, n) == UNION {[1..k -> A] : k \in 0..n}

\* The pieces of ps, concatenated.
RECURSIVE Concat(_)
Concat(ps) == IF ps = <<>> THEN "" ELSE Head(ps) \o Concat(Tail(ps))

\* All strings made of at most n pieces of A.
StringsUpTo(A, n) == {Concat(ps) : ps \in SeqsUpTo(A, n)}

\* s[i], "" outside the string
Char(s, i) == IF i \in 1..Len(s) THEN SubSeq(s, i, i) ELSE ""

\* s[from:], s[:to]
From(s, i) == SubSeq(s, i, Len(s))

Upto(s, i) == SubSeq(s, 1, i)

Digits == {"0", "1", "2", "3", "4", "5", "6", "7", "8", "9"}

DigitVal(c) ==
    CASE c = "0" -> 0 [] c = "1" -> 1 [] c = "2" -> 2 [] c = "3" -> 3
      [] c = "4" -> 4 [] c = "5" -> 5 [] c = "6" -> 6 [] c = "7" -> 7
      [] c = "8" -> 8 [] c = "9" -> 9

\* strings.HasPrefix, strings.HasSuffix
HasPrefix(s, p) == Len(s) >= Len(p) /\ Upto(s, Len(p)) = p

HasSuffix(s, p) == Len(s) >= Len(p) /\ From(s, Len(s) - Len(p) + 1) = p

\* strings.Split(s, sep) for a one-character separator: the pieces between
\* the separators, empty pieces kept; Split("", sep) is one empty piece.
RECURSIVE SplitFrom(_, _, _)
SplitFrom(s, sep, cur) ==
    IF s = "" THEN <<cur>>
    ELSE IF Head(s) = sep THEN <<cur>> \o SplitFrom(Tail(s), sep, "")
    ELSE SplitFrom(Tail(s), sep, cur \o Head(s))

Split(s, sep) == SplitFrom(s, sep, "")

\* strconv.Atoi: an optional sign followed by one or more decimal digits
\* (the strings of the model are too short to overflow an int).
AtoiDigits(s) == IF Char(s, 1) \in {"+", "-"} THEN Tail(s) ELSE s

AtoiOk(s) ==
    /\ AtoiDigits(s) # ""
    /\ \A i \in 1..Len(AtoiDigits(s)) : Char(AtoiDigits(s), i) \in Digits

RECURSIVE Decimal(_)
Decimal(d) ==
    IF d = "" THEN 0
    ELSE 10 * Decimal(Upto(d, Len(d) - 1)) + DigitVal(Char(d, Len(d)))

AtoiVal(s) ==
    IF Char(s, 1) = "-" THEN 0 - Decimal(AtoiDigits(s))
    ELSE Decimal(AtoiDigits(s))

-----------------------------------------------------------------------------
(* Errors and results. *)

NoErr == [kind |-> "nil", text |-> "", cid |-> 0]

\* the error of a failed database call, passed on as it is
DbErr(msg) == [kind |-> "db", text |-> msg, cid |-> 0]

\* fmt.Errorf("could not convert %s%s index %s column %s to int", ...)
ConvertErr(v) == [kind |-> "convert", text |-> v, cid |-> 0]

\* fmt.Errorf("could not find %s%s index %s column id %d", ...)
NotFoundErr(cid) == [kind |-> "notfound", text |-> "", cid |-> cid]

\* return nil, err
Failed(err) == [isNil |-> TRUE, ret |-> <<>>, err |-> err]

\* return ret, nil
Returned(ret) == [isNil |-> FALSE, ret |-> ret, err |-> NoErr]

\* no call has returned yet
NoResult == Failed(NoErr)

\* what a failing database call reports
DbErrors == {"connection reset", "permission denied"}

-----------------------------------------------------------------------------
(* Each specification runs one operation of the loader; the variables of   *)
(* the other operations keep the values they have here.                    *)

IdxIdle ==
    /\ cols = <<>>
    /\ colOrd = ""
    /\ idxFail = "none"
    /\ idxRet = NoResult

TblIdle ==
    /\ rows = <<>>
    /\ sequences = <<>>
    /\ tblFail = "none"
    /\ tblRet = NoResult

NoType == [precision |-> 0, nilVal |-> "", typ |-> ""]

TypeIdle ==
    /\ dt = ""
    /\ nullable = FALSE
    /\ typeRet = NoType

StripIdle ==
    /\ query = <<>>
    /\ queryComments = <<"">>
    /\ original = <<>>
    /\ lastInput = <<>>
    /\ stripRuns = 0

Workers == 1..MaxWorkers

\* a call of PgQueryColumns that has not begun
NotStarted == [pc |-> "start", xoid |-> "", schema |-> "", ret |-> NoResult,
               log |-> <<>>]

QcIdle ==
    /\ worker = [w \in Workers |-> NotStarted]
    /\ session = [w \in Workers |-> "1"]
    /\ inspect = [w \in Workers |-> <<>>]
    /\ pgClass = {}

-----------------------------------------------------------------------------
(* PgIndexColumns: the index's columns in the order colOrd.Ord gives. *)

\* A slip of the lookup: the ordinal taken as a position in cols.
FindColumnByPosition(cs, cid) == IF cid \in 1..Len(cs) THEN cid ELSE 0

\* The inner loop: the index of the first column whose Cid is cid, 0 when
\* no column has it (found = false).
FindColumn(cs, cid) ==
    IF \E i \in 1..Len(cs) : cs[i].Cid = cid
    THEN CHOOSE i \in 1..Len(cs) :
            cs[i].Cid = cid /\ \A j \in 1..(i - 1) : cs[j].Cid # cid
    ELSE 0

\* A slip of the loop: a token that matches no column is skipped.
RECURSIVE OrderLoopSkipMissing(_, _, _)
OrderLoopSkipMissing(cs, toks, ret) ==
    IF toks = <<>> THEN Returned(ret)
    ELSE IF ~AtoiOk(Head(toks)) THEN Failed(ConvertErr(Head(toks)))
    ELSE LET cid == AtoiVal(Head(toks))
             found == FindColumn(cs, cid)
         IN  IF found = 0 THEN OrderLoopSkipMissing(cs, Tail(toks), ret)
             ELSE OrderLoopSkipMissing(cs, Tail(toks), Append(ret, cs[found]))

\* The outer loop over the tokens not yet handled; ret holds the columns
\* appended so far.  The first token that is no integer, or that is the Cid
\* of no column, ends the call with its error.
RECURSIVE OrderLoop(_, _, _)
OrderLoop(cs, toks, ret) ==
    IF toks = <<>> THEN Returned(ret)
    ELSE IF ~AtoiOk(Head(toks)) THEN Failed(ConvertErr(Head(toks)))
    ELSE LET cid == AtoiVal(Head(toks))
             found == FindColumn(cs, cid)
         IN  IF found = 0 THEN Failed(NotFoundErr(cid))
             ELSE OrderLoop(cs, Tail(toks), Append(ret, cs[found]))

\* A slip of the split: the first token is dropped.
OrdTokensDropFirst(ord) == Tail(Split(ord, " "))

\* strings.Split(colOrd.Ord, " ")
OrdTokens(ord) == Split(ord, " ")

\* fail names the catalog query that fails: "cols" (models.PgIndexColumns),
\* "ord" (models.PgGetColOrder) or "none"; msg is the error it reports.
PgIndexColumnsResult(cs, ord, fail, msg) ==
    IF fail = "cols" THEN Failed(DbErr(msg))
    ELSE IF fail = "ord" THEN Failed(DbErr(msg))
    ELSE OrderLoop(cs, OrdTokens(ord), <<>>)

\* The inputs: what the two catalog queries return.
ColumnIds == {1, 2, 3}

ColumnNames == <<"a", "b", "c">>

OrdAlphabet == {"1", "2", "3", " ", "-"}

\* Rows of models.PgIndexColumns, in any order and with any identifiers; the
\* i-th row is named ColumnNames[i], so two rows are equal only if they are
\* the same row.
ColumnLists ==
    { [i \in 1..Len(ids) |-> [Cid |-> ids[i], ColumnName |-> ColumnNames[i]]] :
        ids \in SeqsUpTo(ColumnIds, Len(ColumnNames)) }

PgIndexColumns ==
    /\ pc = "idle"
    /\ \E cs \in ColumnLists, ord \in StringsUpTo(OrdAlphabet, MaxOrdLen),
          fail \in {"none", "cols", "ord"}, msg \in DbErrors :
          \* a failed query returns nothing; only the first error message is
          \* paired with a call in which no query fails
          /\ fail = "cols" => cs = <<>>
          /\ fail # "none" => ord = ""
          /\ fail = "none" => msg = "connection reset"
          /\ cols' = cs
          /\ colOrd' = ord
          /\ idxFail' = fail
          /\ idxRet' = PgIndexColumnsResult(cs, ord, fail, msg)
    /\ pc' = "returned"
    /\ UNCHANGED <<tblVars, typeVars, stripVars, qcVars>>

InitIdx == pc = "idle" /\ IdxIdle /\ TblIdle /\ TypeIdle /\ StripIdle /\ QcIdle

NextIdx == PgIndexColumns

SpecIdx == InitIdx /\ [][NextIdx]_vars

-----------------------------------------------------------------------------
(* Claims about PgIndexColumns. *)

Whitespace == {" ", "\t", "\n", "\r"}

\* The whitespace-separated tokens of s: its maximal runs of characters that
\* are not whitespace.
RECURSIVE FieldsFrom(_, _)
FieldsFrom(s, cur) ==
    IF s = "" THEN (IF cur = "" THEN <<>> ELSE <<cur>>)
    ELSE IF Head(s) \in Whitespace
         THEN (IF cur = "" THEN <<>> ELSE <<cur>>) \o FieldsFrom(Tail(s), "")
    ELSE FieldsFrom(Tail(s), cur \o Head(s))

Fields(s) == FieldsFrom(s, "")

IdxSucceeded == pc = "returned" /\ ~idxRet.isNil /\ idxRet.err = NoErr

IdxFailed ==
    pc = "returned" /\ idxRet.isNil /\ idxRet.ret = <<>> /\ idxRet.err # NoErr

\* C1: when PgIndexColumns succeeds, the i-th returned column is one of the
\* discovered columns and its Cid is the integer value of the i-th token of
\* the ordinal string, for every position i of the result and of the tokens.
C1_OrderFollowsOrdinal ==
    IdxSucceeded =>
        LET toks == Fields(colOrd)
        IN  /\ DOMAIN idxRet.ret = DOMAIN toks
            /\ \A i \in DOMAIN toks :
                  /\ \E j \in DOMAIN cols : idxRet.ret[i] = cols[j]
                  /\ AtoiOk(toks[i])
                  /\ idxRet.ret[i].Cid = AtoiVal(toks[i])

\* the example of the specification: "2 1 3" over {1:a, 2:b, 3:c} is [b, a, c]
C1_Witness ==
    /\ IdxSucceeded
    /\ colOrd = "2 1 3"
    /\ [i \in DOMAIN cols |-> cols[i].Cid] = <<1, 2, 3>>
    /\ [i \in DOMAIN idxRet.ret |-> idxRet.ret[i].ColumnName] = <<"b", "a", "c">>

\* C2: PgIndexColumns is all or nothing: it returns an error and no list, or
\* a list as long as the number of whitespace-separated tokens of the
\* ordinal string; a token that is no integer, or whose value is the Cid of
\* no discovered column, makes it fail.
C2_AllOrNothing ==
    pc = "returned" =>
        LET toks == Fields(colOrd)
        IN  /\ IdxFailed \/ (IdxSucceeded /\ Len(idxRet.ret) = Len(toks))
            /\ (\E i \in DOMAIN toks :
                   \/ ~AtoiOk(toks[i])
                   \/ \A j \in DOMAIN cols : cols[j].Cid # AtoiVal(toks[i]))
               => IdxFailed

\* a call that found its first column and then met a token matching none
C2_Witness ==
    /\ IdxFailed
    /\ idxRet.err.kind = "notfound"
    /\ Len(Fields(colOrd)) >= 2
    /\ \E j \in DOMAIN cols : cols[j].Cid = AtoiVal(Fields(colOrd)[1])

\* how often column c occurs in the list r
Occurrences(r, c) == Cardinality({k \in DOMAIN r : r[k] = c})

\* how many tokens of ord have the integer value cid
TokensNaming(ord, cid) ==
    LET toks == Fields(ord)
    IN  Cardinality({k \in DOMAIN toks : AtoiOk(toks[k]) /\ AtoiVal(toks[k]) = cid})

\* C3 as stated: no column occurs twice in a successful result, and the Cid
\* of each returned column occurs exactly once among the ordinal tokens.
C3_ExactlyOnce ==
    IdxSucceeded =>
        \A i \in DOMAIN idxRet.ret :
            /\ Occurrences(idxRet.ret, idxRet.ret[i]) = 1
            /\ TokensNaming(colOrd, idxRet.ret[i].Cid) = 1

\* C3, amended: a column of a successful result occurs in it as many times
\* as its Cid occurs among the ordinal tokens (once for an ordinal string
\* that names it once, once more for every repetition).
C3_OncePerToken ==
    IdxSucceeded =>
        \A i \in DOMAIN idxRet.ret :
            Occurrences(idxRet.ret, idxRet.ret[i])
                = TokensNaming(colOrd, idxRet.ret[i].Cid)

\* a successful call on an ordinal string that repeats a column identifier
C3_Witness ==
    /\ IdxSucceeded
    /\ \E i, j \in DOMAIN idxRet.ret : i # j /\ idxRet.ret[i] = idxRet.ret[j]

-----------------------------------------------------------------------------
(* PgTables: the relations of a schema, each flagged ManualPk unless a     *)
(* sequence is defined for it.                                             *)

\* A slip of the inner loop: the flag is assigned at every sequence, so only
\* the last sequence decides.
ManualPkLastOnly(row, seqs) ==
    seqs = <<>> \/ seqs[Len(seqs)].TableName # row.TableName

\* The inner loop: manualPk starts true and is cleared by every sequence
\* whose TableName is the row's.
ManualPk(row, seqs) ==
    ~ \E i \in DOMAIN seqs : seqs[i].TableName = row.TableName

\* return tables, nil; tables is nil when nothing was appended
TablesReturned(tables) ==
    [isNil |-> tables = <<>>, ret |-> tables, err |-> NoErr]

\* The outer loop: one models.Table per row, in the rows' order.
TablesOf(rs, seqs) ==
    [i \in DOMAIN rs |->
        [TableName |-> rs[i].TableName,
         Type |-> rs[i].Type,
         ManualPk |-> ManualPk(rs[i], seqs)]]

\* A slip of the error handling: a failed sequence query fails the call.
PgTablesResultStrict(rs, seqs, fail, msg) ==
    IF fail # "none" THEN Failed(DbErr(msg))
    ELSE TablesReturned(TablesOf(rs, seqs))

\* fail names the catalog query that fails: "tables" (models.PgTables),
\* "sequences" (models.PgSequences) or "none"; seqs is what
\* models.PgSequences returned, whether it failed or not.
PgTablesResult(rs, seqs, fail, msg) ==
    IF fail = "tables" THEN Failed(DbErr(msg))
    ELSE TablesReturned(
             TablesOf(rs, IF fail = "sequences" THEN <<>> ELSE seqs))

TableNames == {"orders", "order_items"}

\* relkind of a row: a table or a view
RelKinds == {"r", "v"}

RelationRows == [TableName : TableNames, Type : RelKinds]

SequenceRows == [TableName : TableNames]

PgTables ==
    /\ pc = "idle"
    /\ \E rs \in SeqsUpTo(RelationRows, MaxRows),
          seqs \in SeqsUpTo(SequenceRows, MaxSeqs),
          fail \in {"none", "tables", "sequences"}, msg \in DbErrors :
          \* a failed relation query returns nothing and ends the call
          /\ fail = "tables" => (rs = <<>> /\ seqs = <<>>)
          /\ fail = "none" => msg = "connection reset"
          /\ rows' = rs
          /\ sequences' = seqs
          /\ tblFail' = fail
          /\ tblRet' = PgTablesResult(rs, seqs, fail, msg)
    /\ pc' = "returned"
    /\ UNCHANGED <<idxVars, typeVars, stripVars, qcVars>>

InitTables == pc = "idle" /\ IdxIdle /\ TblIdle /\ TypeIdle /\ StripIdle /\ QcIdle

NextTables == PgTables

SpecTables == InitTables /\ [][NextTables]_vars

-----------------------------------------------------------------------------
(* Claims about PgTables. *)

\* the table names of the sequences the call fetched: none when the fetch
\* failed
FetchedSequenceTables ==
    IF tblFail = "sequences" THEN {}
    ELSE {sequences[i].TableName : i \in DOMAIN sequences}

\* C4: when the relation listing succeeds, PgTables returns one Table per
\* raw row, in the rows' order and with the row's name and kind, and a
\* Table's ManualPk is false exactly when a fetched sequence has its name.
C4_OneTablePerRow ==
    (pc = "returned" /\ tblFail # "tables") =>
        /\ tblRet.err = NoErr
        /\ DOMAIN tblRet.ret = DOMAIN rows
        /\ \A i \in DOMAIN rows :
              /\ tblRet.ret[i].TableName = rows[i].TableName
              /\ tblRet.ret[i].Type = rows[i].Type
              /\ tblRet.ret[i].ManualPk = FALSE
                    <=> rows[i].TableName \in FetchedSequenceTables

\* the example of the specification
C4_Witness ==
    /\ pc = "returned"
    /\ tblFail = "none"
    /\ [i \in DOMAIN rows |-> rows[i].TableName] = <<"orders", "order_items">>
    /\ [i \in DOMAIN sequences |-> sequences[i].TableName]
          = <<"order_items">>
    /\ [i \in DOMAIN tblRet.ret |-> tblRet.ret[i].ManualPk] = <<TRUE, FALSE>>

\* C5: a failed sequence fetch does not fail PgTables: every relation is
\* returned with ManualPk true and no error; the call fails only when the
\* relation listing fails, and then returns no tables.
C5_SequenceFailureDegrades ==
    pc = "returned" =>
        /\ tblFail = "sequences" =>
              /\ tblRet.err = NoErr
              /\ DOMAIN tblRet.ret = DOMAIN rows
              /\ \A i \in DOMAIN rows :
                    /\ tblRet.ret[i].TableName = rows[i].TableName
                    /\ tblRet.ret[i].ManualPk = TRUE
        /\ tblRet.err # NoErr <=> tblFail = "tables"
        /\ tblFail = "tables" => (tblRet.isNil /\ tblRet.ret = <<>>)

\* the sequence fetch fails after returning a sequence of a listed relation
C5_Witness ==
    /\ pc = "returned"
    /\ tblFail = "sequences"
    /\ rows # <<>>
    /\ \E i \in DOMAIN sequences : sequences[i].TableName = rows[1].TableName
    /\ tblRet.ret # <<>>

-----------------------------------------------------------------------------
(* PgParseType: a native type string to (precision, nilVal, typ). *)

LowerCase == "abcdefghijklmnopqrstuvwxyz"

UpperCase == "ABCDEFGHIJKLMNOPQRSTUVWXYZ"

Letters == {Char(LowerCase, i) : i \in 1..Len(LowerCase)}
              \cup {Char(UpperCase, i) : i \in 1..Len(UpperCase)}

\* the position of character c in the alphabet abc, 0 if it is not in it
IndexIn(abc, c) ==
    IF \E i \in 1..Len(abc) : Char(abc, i) = c
    THEN CHOOSE i \in 1..Len(abc) : Char(abc, i) = c
    ELSE 0

\* strings.ToUpper, strings.ToLower
RECURSIVE ToUpper(_)
ToUpper(s) ==
    IF s = "" THEN ""
    ELSE (IF IndexIn(LowerCase, Head(s)) # 0
          THEN Char(UpperCase, IndexIn(LowerCase, Head(s)))
          ELSE Head(s)) \o ToUpper(Tail(s))

RECURSIVE ToLower(_)
ToLower(s) ==
    IF s = "" THEN ""
    ELSE (IF IndexIn(UpperCase, Head(s)) # 0
          THEN Char(LowerCase, IndexIn(UpperCase, Head(s)))
          ELSE Head(s)) \o ToLower(Tail(s))

\* the characters of s that may stand in an identifier
RECURSIVE IdentifierChars(_)
IdentifierChars(s) ==
    IF s = "" THEN ""
    ELSE (IF Head(s) \in Letters \cup Digits \cup {"_"} THEN Head(s) ELSE "")
            \o IdentifierChars(Tail(s))

\* the initialisms snaker writes in capitals, those the inputs can hold
CommonInitialisms == {"ID", "URL", "UUID"}

\* snaker.SnakeToCamel: the words between underscores, an initialism in
\* capitals, any other word with its first letter in capitals
RECURSIVE CamelWords(_)
CamelWords(ws) ==
    IF ws = <<>> THEN ""
    ELSE (IF Head(ws) = "" THEN ""
          ELSE IF ToUpper(Head(ws)) \in CommonInitialisms THEN ToUpper(Head(ws))
          ELSE ToUpper(Upto(Head(ws), 1)) \o ToLower(From(Head(ws), 2)))
            \o CamelWords(Tail(ws))

\* snaker.SnakeToCamelIdentifier
SnakeToCamelIdentifier(s) == CamelWords(Split(IdentifierChars(s), "_"))

\* the position of the last "(" of s, 0 if it has none
LastOpen(s) ==
    IF \E i \in 1..Len(s) : Char(s, i) = "("
    THEN CHOOSE i \in 1..Len(s) :
            Char(s, i) = "(" /\ \A j \in (i + 1)..Len(s) : Char(s, j) # "("
    ELSE 0

AllDigits(s) == s # "" /\ \A i \in 1..Len(s) : Char(s, i) \in Digits

\* args.ParsePrecision: a trailing "(p)" or "(p,s)" is cut off the type
\* and p is the precision; without one the precision is 0.
ParsePrecision(s) ==
    LET open == LastOpen(s)
        parts == Split(SubSeq(s, open + 1, Len(s) - 1), ",")
    IN  IF /\ open # 0
           /\ HasSuffix(s, ")")
           /\ Len(parts) \in {1, 2}
           /\ \A i \in DOMAIN parts : AllDigits(parts[i])
        THEN [dt |-> Upto(s, open - 1), precision |-> Decimal(parts[1])]
        ELSE [dt |-> s, precision |-> 0]

nonSliceDt(t) ==
    CASE t = "boolean" -> [nilVal |-> "pgtype.Bool{}", typ |-> "pgtype.Bool"]
      [] t \in {"character", "character varying", "text", "money", "inet"} ->
            [nilVal |-> "pgtype.Text{}", typ |-> "pgtype.Text"]
      [] t \in {"smallint", "smallserial"} ->
            [nilVal |-> "pgtype.Int2{}", typ |-> "pgtype.Int2"]
      [] t \in {"integer", "serial"} ->
            [nilVal |-> "pgtype.Int4{}", typ |-> "pgtype.Int4"]
      [] t \in {"bigint", "bigserial"} ->
            [nilVal |-> "pgtype.Int8{}", typ |-> "pgtype.Int8"]
      [] t = "real" -> [nilVal |-> "pgtype.Float4{}", typ |-> "pgtype.Float4"]
      [] t \in {"numeric", "double precision"} ->
            [nilVal |-> "pgtype.Float8{}", typ |-> "pgtype.Float8"]
      [] t = "bytea" -> [nilVal |-> "pgtype.Bytea{}", typ |-> "pgtype.Bytea"]
      [] t = "jsonb" -> [nilVal |-> "pgtype.JSONB{}", typ |-> "pgtype.JSONB"]
      [] t = "date" -> [nilVal |-> "pgtype.Date{}", typ |-> "pgtype.Date"]
      [] t \in {"timestamp with time zone", "time with time zone"} ->
            [nilVal |-> "pgtype.Timestamp{}", typ |-> "pgtype.Timestamp"]
      [] t \in {"time without time zone", "timestamp without time zone"} ->
            [nilVal |-> "pgtype.Timestamptz{}", typ |-> "pgtype.Timestamptz"]
      [] t = "interval" ->
            [nilVal |-> "pgtype.Interval{}", typ |-> "pgtype.Interval"]
      [] t = "\"char\"" -> [nilVal |-> "pgtype.QChar{}", typ |-> "pgtype.QChar"]
      [] t = "bit" -> [nilVal |-> "pgtype.Bit{}", typ |-> "pgtype.Bit"]
      [] t = "uuid" -> [nilVal |-> "pgtype.UUID{}", typ |-> "pgtype.UUID"]
      [] OTHER -> [nilVal |-> SnakeToCamelIdentifier(t) \o "{}",
                   typ |-> SnakeToCamelIdentifier(t)]

sliceDt(t) ==
    CASE t = "uuid" ->
            [nilVal |-> "pgtype.UUIDArray{}", typ |-> "pgtype.UUIDArray"]
      [] OTHER -> [nilVal |-> "[]" \o t \o "{}", typ |-> "[]" \o t]

RECURSIVE PgParseType(_, _)
PgParseType(t, isNullable) ==
    IF HasPrefix(t, "SETOF ")
    THEN [precision |-> 0,
          nilVal |-> "nil",
          typ |-> "[]" \o PgParseType(From(t, Len("SETOF ") + 1), FALSE).typ]
    ELSE LET asSlice == HasSuffix(t, "[]")
             parsed == ParsePrecision(IF asSlice THEN Upto(t, Len(t) - 2) ELSE t)
             looked == IF asSlice THEN sliceDt(parsed.dt) ELSE nonSliceDt(parsed.dt)
         IN  [precision |-> parsed.precision,
              nilVal |-> looked.nilVal,
              typ |-> looked.typ]

\* The inputs: the native types of the table, three user-defined ones, each
\* with or without a precision, the array marker and the SETOF prefix.
ScalarTypes ==
    {"boolean", "character", "character varying", "text", "money", "inet",
     "smallint", "smallserial", "integer", "serial", "bigint", "bigserial",
     "real", "numeric", "double precision", "bytea", "jsonb", "date",
     "timestamp with time zone", "time with time zone",
     "time without time zone", "timestamp without time zone", "interval",
     "\"char\"", "bit", "uuid"}

UserTypes == {"order_status", "user_id", "mood"}

TypeStrings ==
    {setof \o base \o prec \o arr :
        setof \in {"", "SETOF "}, base \in ScalarTypes \cup UserTypes,
        prec \in {"", "(10)", "(10,2)"}, arr \in {"", "[]"}}

PgParseTypeCall ==
    /\ pc = "idle"
    /\ \E t \in TypeStrings, n \in BOOLEAN :
          /\ dt' = t
          /\ nullable' = n
          /\ typeRet' = PgParseType(t, n)
    /\ pc' = "returned"
    /\ UNCHANGED <<idxVars, tblVars, stripVars, qcVars>>

InitType == pc = "idle" /\ IdxIdle /\ TblIdle /\ TypeIdle /\ StripIdle /\ QcIdle

NextType == PgParseTypeCall

SpecType == InitType /\ [][NextType]_vars

-----------------------------------------------------------------------------
(* Claims about PgParseType. *)

\* the type string without its two-character array marker
WithoutArrayMarker(t) == Upto(t, Len(t) - 2)

\* C6: for a type string that ends in "[]" and does not start with "SETOF ",
\* PgParseType returns "[]" followed by the typ it returns for the string
\* without the marker, except that a uuid base type gives pgtype.UUIDArray.
C6_ArrayWrapsCanonical ==
    (pc = "returned" /\ HasSuffix(dt, "[]") /\ ~HasPrefix(dt, "SETOF ")) =>
        IF ParsePrecision(WithoutArrayMarker(dt)).dt = "uuid"
        THEN typeRet.typ = "pgtype.UUIDArray"
        ELSE typeRet.typ
                = "[]" \o PgParseType(WithoutArrayMarker(dt), nullable).typ

-----------------------------------------------------------------------------
(* PgQueryStrip: the first '::type AS name' of every line is cut out of    *)
(* the line and kept as the comment of the line.                           *)

\* [a-z0-9_\.] under (?i)
IdentChars == Letters \cup Digits \cup {"_", "."}

\* \s
SpaceChars == {" ", "\t", "\n", "\f", "\r"}

\* the last position of the longest run of characters of class that starts
\* at position p of l; p - 1 when the run is empty
RECURSIVE RunEnd(_, _, _)
RunEnd(l, p, class) ==
    IF Char(l, p) \in class THEN RunEnd(l, p + 1, class) ELSE p - 1

\* pgQueryStripRE matched at position p of l: the last position of the
\* match, 0 when there is none.  Every repetition is greedy and is followed
\* by a character outside its class, so each run is taken whole.
MatchEnd(l, p) ==
    LET type == RunEnd(l, p + 2, IdentChars)
        gap1 == RunEnd(l, type + 1, SpaceChars)
        gap2 == RunEnd(l, gap1 + 3, SpaceChars)
        name == RunEnd(l, gap2 + 1, IdentChars)
    IN  IF /\ SubSeq(l, p, p + 1) = "::"
           /\ Char(l, p + 2) \in Letters
           /\ type >= p + 3
           /\ gap1 >= type + 1
           /\ ToUpper(Char(l, gap1 + 1) \o Char(l, gap1 + 2)) = "AS"
           /\ gap2 >= gap1 + 3
           /\ Char(l, gap2 + 1) \in Letters
           /\ name >= gap2 + 2
        THEN name
        ELSE 0

\* pgQueryStripRE.FindStringIndex(l): the first and last position of the
\* leftmost match, <<>> (nil) when the line has none
FindStringIndex(l) ==
    IF \E p \in 1..(Len(l) - 1) : MatchEnd(l, p) # 0
    THEN LET first == CHOOSE p \in 1..(Len(l) - 1) :
                          /\ MatchEnd(l, p) # 0
                          /\ \A q \in 1..(p - 1) : MatchEnd(l, q) = 0
         IN  <<first, MatchEnd(l, first)>>
    ELSE <<>>

\* A slip of the loop body: the cut line is assigned to the loop variable l,
\* a copy, and query[i] keeps the match.
StripLineKeepsLine(l) ==
    LET pos == FindStringIndex(l)
    IN  IF pos # <<>>
        THEN [line |-> l, comment |-> SubSeq(l, pos[1], pos[2])]
        ELSE [line |-> l, comment |-> ""]

\* The loop body: the new query[i] and queryComments[i+1] for line l.
StripLine(l) ==
    LET pos == FindStringIndex(l)
    IN  IF pos # <<>>
        THEN [line |-> Upto(l, pos[1] - 1) \o From(l, pos[2] + 1),
              comment |-> SubSeq(l, pos[1], pos[2])]
        ELSE [line |-> l, comment |-> ""]

\* The lines and the comments after the loop; queryComments[0] (here the
\* first comment) is not written.
StrippedQuery(q) == [i \in DOMAIN q |-> StripLine(q[i]).line]

StrippedComments(q, c) ==
    [j \in DOMAIN c |-> IF j - 1 \in DOMAIN q THEN StripLine(q[j - 1]).comment
                        ELSE c[j]]

\* The inputs: query texts made of these pieces, split into lines.
QueryPieces == {"::ab", " AS ", "cd", ":", "\n"}

Queries(n) == {Split(text, "\n") : text \in StringsUpTo(QueryPieces, n)}

PgQueryStrip ==
    /\ stripRuns < MaxRuns
    /\ query' = StrippedQuery(query)
    /\ queryComments' = StrippedComments(query, queryComments)
    /\ lastInput' = query
    /\ stripRuns' = stripRuns + 1
    /\ UNCHANGED <<pc, original, idxVars, tblVars, typeVars, qcVars>>

InitStrip ==
    /\ pc = "idle"
    /\ IdxIdle /\ TblIdle /\ TypeIdle /\ QcIdle
    /\ query \in Queries(MaxPieces)
    /\ queryComments = [j \in 1..(Len(query) + 1) |-> ""]
    /\ original = query
    /\ lastInput = query
    /\ stripRuns = 0

NextStrip == PgQueryStrip

SpecStrip == InitStrip /\ [][NextStrip]_vars

-----------------------------------------------------------------------------
(* Claims about PgQueryStrip. *)

\* the positions of l at which "::" stands
ColonPairs(l) == {p \in 1..(Len(l) - 1) : SubSeq(l, p, p + 1) = "::"}

\* C7 as stated: after one run of PgQueryStrip a second run changes no line
\* and records an empty comment for every line.
C7_Idempotent ==
    stripRuns >= 2 =>
        \A i \in DOMAIN query :
            query[i] = lastInput[i] /\ queryComments[i + 1] = ""

\* C7, amended: after one run of PgQueryStrip a second run changes no line
\* that held at most one "::" before the first run, and records an empty
\* comment for it; a line with more may lose another match in a later run.
C7_IdempotentOnSingleCast ==
    stripRuns >= 2 =>
        \A i \in DOMAIN query :
            Cardinality(ColonPairs(original[i])) <= 1 =>
                query[i] = lastInput[i] /\ queryComments[i + 1] = ""

\* two runs over a line whose only cast the first run removed
C7_Witness ==
    /\ stripRuns = 2
    /\ \E i \in DOMAIN query :
          /\ Cardinality(ColonPairs(original[i])) = 1
          /\ original[i] # query[i]
          /\ Len(query) >= 2

-----------------------------------------------------------------------------
(* PgQueryColumns: the columns of a query, found by creating a temporary   *)
(* view of it, asking the catalog for the schema the view landed in, and   *)
(* listing the view's columns as those of a table.                         *)

\* strings.Join
RECURSIVE Join(_, _)
Join(ss, sep) ==
    IF ss = <<>> THEN ""
    ELSE IF Len(ss) = 1 THEN ss[1]
    ELSE ss[1] \o sep \o Join(Tail(ss), sep)

\* viewq
ViewQuery(xoid, lines) ==
    "CREATE TEMPORARY VIEW " \o xoid \o " AS (" \o Join(lines, "\n") \o ")"

\* nspq
NamespaceQuery ==
    "SELECT n.nspname FROM pg_class c "
        \o "JOIN pg_namespace n ON n.oid = c.relnamespace "
        \o "WHERE n.nspname LIKE 'pg_temp%' AND c.relname = $1"

\* a database call of a worker with the reply it got: err is "" or the
\* error reported, rows the rows of a reply that has some
DbCall(call, sql, args, err, rs) ==
    [call |-> call, sql |-> sql, args |-> args, err |-> err, rows |-> rs]

\* sql.ErrNoRows, the error of Scan on a reply without rows
ErrNoRows == DbErr("sql: no rows in result set")

\* A slip of the first part: the error of Exec is not returned.
ExecRepliedErrIgnored(st, lines, id, err) ==
    [st EXCEPT !.xoid = "_xo_" \o id,
               !.log = Append(@, DbCall("Exec", ViewQuery("_xo_" \o id, lines),
                                        <<>>, err, <<>>)),
               !.pc = "created"]

\* The call up to the first return: xoid is made of the random id, the view
\* statement is executed, and its error, if any, is returned.
ExecReplied(st, lines, id, err) ==
    [st EXCEPT !.xoid = "_xo_" \o id,
               !.log = Append(@, DbCall("Exec", ViewQuery("_xo_" \o id, lines),
                                        <<>>, err, <<>>)),
               !.pc = IF err # "" THEN "returned" ELSE "created",
               !.ret = IF err # "" THEN Failed(DbErr(err)) ELSE @]

\* QueryRow(...).Scan(&schema): the error of the query, sql.ErrNoRows for a
\* reply without rows, else the first row; any further rows are discarded.
ScanRow(rs, err) ==
    IF err # "" THEN [err |-> DbErr(err), value |-> ""]
    ELSE IF rs = <<>> THEN [err |-> ErrNoRows, value |-> ""]
    ELSE [err |-> NoErr, value |-> rs[1]]

\* The call from the namespace query to the second return.
ScanReplied(st, rs, err) ==
    [st EXCEPT !.log = Append(@, DbCall("QueryRow", NamespaceQuery,
                                        <<st.xoid>>, err, rs)),
               !.pc = IF ScanRow(rs, err).err # NoErr THEN "returned"
                      ELSE "scanned",
               !.schema = ScanRow(rs, err).value,
               !.ret = IF ScanRow(rs, err).err # NoErr
                       THEN Failed(ScanRow(rs, err).err) ELSE @]

\* The last statement: what models.PgTableColumns returns is returned.
ColumnsReplied(st, columns, err) ==
    [st EXCEPT !.log = Append(@, DbCall("PgTableColumns", "",
                                        <<st.schema, st.xoid>>, err, columns)),
               !.pc = "returned",
               !.ret = IF err # "" THEN Failed(DbErr(err))
                       ELSE [isNil |-> columns = <<>>, ret |-> columns,
                             err |-> NoErr]]

(* The database. *)

Sessions == {"1", "2"}

\* the schema of the temporary objects of a session
TempSchema(s) == "pg_temp_" \o s

\* The inputs: the queries inspected, and the columns of each.
Inspects == {<<"SELECT id", "FROM orders">>, <<"SELECT name, total FROM items">>}

QueryShape(text) ==
    CASE text = "SELECT id\nFROM orders" -> <<"id">>
      [] text = "SELECT name, total FROM items" -> <<"name", "total">>

\* internal.GenRandomID: a random id; collision-resistant, so one that no
\* other call of the run has drawn.
RandomIDs == {"kqzx", "bwpf", "mtjd"}

GenRandomID(used) == RandomIDs \ used

UsedIDs == {From(worker[w].xoid, Len("_xo_") + 1) : w \in Workers} \ {""}

\* the enumerations of a finite set, one for every order of its elements
Orderings(S) ==
    {f \in [1..Cardinality(S) -> S] : \A i, j \in DOMAIN f : f[i] = f[j] => i = j}

\* A slip of the query: the relation name is not compared.
NamespaceRowsAnyName(catalog, name) ==
    {r.nspname : r \in {x \in catalog : HasPrefix(x.nspname, "pg_temp")}}

\* The rows of nspq: the schema of every relation called name in a schema
\* whose name begins with pg_temp, whatever the session that owns it.
NamespaceRows(catalog, name) ==
    {r.nspname : r \in {x \in catalog :
                          HasPrefix(x.nspname, "pg_temp") /\ x.relname = name}}

\* models.PgTableColumns: the columns of relation schema.name, none if the
\* catalog has no such relation.
TableColumns(catalog, schema, name) ==
    IF \E r \in catalog : r.nspname = schema /\ r.relname = name
    THEN (CHOOSE r \in catalog : r.nspname = schema /\ r.relname = name).columns
    ELSE <<>>

\* what a database call may report: no error, or one of the errors
Replies == {""} \cup DbErrors

\* A worker runs the first part of the call.  The statement fails if the
\* database says so, and always if the session has a relation of that name.
CreateView(w) ==
    /\ worker[w].pc = "start"
    /\ \E id \in GenRandomID(UsedIDs), err \in Replies :
          LET rel == [nspname |-> TempSchema(session[w]),
                      relname |-> "_xo_" \o id,
                      columns |-> QueryShape(Join(inspect[w], "\n")),
                      creator |-> w]
          IN  /\ (\E r \in pgClass :
                     r.nspname = rel.nspname /\ r.relname = rel.relname)
                   => err # ""
              /\ worker' = [worker EXCEPT
                               ![w] = ExecReplied(@, inspect[w], id, err)]
              /\ pgClass' = IF err = "" THEN pgClass \cup {rel} ELSE pgClass
    /\ UNCHANGED <<pc, session, inspect, idxVars, tblVars, typeVars, stripVars>>

\* A worker runs the second part of the call.
LookupSchema(w) ==
    /\ worker[w].pc = "created"
    /\ \E err \in Replies :
       \E rs \in IF err = "" THEN Orderings(NamespaceRows(pgClass, worker[w].xoid))
                 ELSE {<<>>} :
          worker' = [worker EXCEPT ![w] = ScanReplied(@, rs, err)]
    /\ UNCHANGED <<pc, session, inspect, pgClass,
                   idxVars, tblVars, typeVars, stripVars>>

\* A slip of the last part: the view is dropped once its columns are read.
ListColumnsAndDrop(w) ==
    /\ worker[w].pc = "scanned"
    /\ \E err \in Replies :
          worker' = [worker EXCEPT ![w] =
              [ColumnsReplied(@,
                  IF err = ""
                  THEN TableColumns(pgClass, worker[w].schema, worker[w].xoid)
                  ELSE <<>>, err)
               EXCEPT !.log = Append(@, DbCall("Exec",
                                 "DROP VIEW " \o worker[w].xoid, <<>>, "", <<>>))]]
    /\ pgClass' = {r \in pgClass :
                      ~(r.nspname = TempSchema(session[w])
                            /\ r.relname = worker[w].xoid)}
    /\ UNCHANGED <<pc, session, inspect, idxVars, tblVars, typeVars, stripVars>>

\* A worker runs the last part of the call.
ListColumns(w) ==
    /\ worker[w].pc = "scanned"
    /\ \E err \in Replies :
          worker' = [worker EXCEPT ![w] =
              ColumnsReplied(@,
                  IF err = ""
                  THEN TableColumns(pgClass, worker[w].schema, worker[w].xoid)
                  ELSE <<>>, err)]
    /\ UNCHANGED <<pc, session, inspect, pgClass,
                   idxVars, tblVars, typeVars, stripVars>>

InitQueryColumns ==
    /\ pc = "idle"
    /\ IdxIdle /\ TblIdle /\ TypeIdle /\ StripIdle
    /\ worker = [w \in Workers |-> NotStarted]
    /\ session \in [Workers -> Sessions]
    /\ inspect \in [Workers -> Inspects]
    /\ pgClass = {}

NextQueryColumns ==
    \E w \in Workers : CreateView(w) \/ LookupSchema(w) \/ ListColumns(w)

\* Workers calling PgQueryColumns concurrently, each on its session.
SpecQueryColumns == InitQueryColumns /\ [][NextQueryColumns]_vars

(* One call on any database handle: every reply is whatever a database     *)
(* may answer.  The namespace query is answered with several rows when     *)
(* other sessions hold a temporary relation of the same name, and with     *)
(* none when the view is gone by the time it is asked.                     *)

NamespaceReplies == SeqsUpTo({TempSchema(s) : s \in Sessions}, MaxNspRows)

ColumnReplies == {<<>>} \cup {QueryShape(Join(q, "\n")) : q \in Inspects}

AnyExec ==
    /\ worker[1].pc = "start"
    /\ \E id \in RandomIDs, err \in Replies :
          worker' = [worker EXCEPT ![1] = ExecReplied(@, inspect[1], id, err)]
    /\ UNCHANGED <<pc, session, inspect, pgClass,
                   idxVars, tblVars, typeVars, stripVars>>

AnyScan ==
    /\ worker[1].pc = "created"
    /\ \E err \in Replies :
       \E rs \in IF err = "" THEN NamespaceReplies ELSE {<<>>} :
          worker' = [worker EXCEPT ![1] = ScanReplied(@, rs, err)]
    /\ UNCHANGED <<pc, session, inspect, pgClass,
                   idxVars, tblVars, typeVars, stripVars>>

AnyColumns ==
    /\ worker[1].pc = "scanned"
    /\ \E err \in Replies :
       \E columns \in IF err = "" THEN ColumnReplies ELSE {<<>>} :
          worker' = [worker EXCEPT ![1] = ColumnsReplied(@, columns, err)]
    /\ UNCHANGED <<pc, session, inspect, pgClass,
                   idxVars, tblVars, typeVars, stripVars>>

InitAnyHandle ==
    /\ pc = "idle"
    /\ IdxIdle /\ TblIdle /\ TypeIdle /\ StripIdle
    /\ worker = [w \in Workers |-> NotStarted]
    /\ session = [w \in Workers |-> "1"]
    /\ inspect \in {[w \in Workers |-> q] : q \in Inspects}
    /\ pgClass = {}

NextAnyHandle == AnyExec \/ AnyScan \/ AnyColumns

SpecAnyHandle == InitAnyHandle /\ [][NextAnyHandle]_vars

-----------------------------------------------------------------------------
(* Claims about PgQueryColumns. *)

\* the database calls of kind call that a worker's call made
CallsOf(st, call) == {k \in DOMAIN st.log : st.log[k].call = call}

FailedWith(st, err) == st.ret.isNil /\ st.ret.ret = <<>> /\ st.ret.err = err

\* C8 as stated: PgQueryColumns fails, returning the database's error and no
\* columns, when the view statement fails, when the namespace lookup yields
\* no row, when it yields more than one row, and when the column listing
\* fails.
C8_FailsInFourCases ==
    LET st == worker[1]
    IN  st.pc = "returned" =>
            /\ \A k \in CallsOf(st, "Exec") :
                  st.log[k].err # "" => FailedWith(st, DbErr(st.log[k].err))
            /\ \A k \in CallsOf(st, "QueryRow") :
                  /\ (st.log[k].err = "" /\ Len(st.log[k].rows) = 0)
                        => FailedWith(st, ErrNoRows)
                  /\ (st.log[k].err = "" /\ Len(st.log[k].rows) > 1)
                        => (st.ret.isNil /\ st.ret.err # NoErr)
            /\ \A k \in CallsOf(st, "PgTableColumns") :
                  st.log[k].err # "" => FailedWith(st, DbErr(st.log[k].err))

\* C8, amended: PgQueryColumns fails, returning the database's error and no
\* columns, when the view statement fails, when the namespace lookup yields
\* no row, and when the column listing fails; a lookup that yields more
\* than one row does not fail the call: the schema of the first row is used
\* for the column listing, whose outcome is the outcome of the call.
C8_FailsInThreeCases ==
    LET st == worker[1]
    IN  st.pc = "returned" =>
            /\ \A k \in CallsOf(st, "Exec") :
                  st.log[k].err # "" => FailedWith(st, DbErr(st.log[k].err))
            /\ \A k \in CallsOf(st, "QueryRow") :
                  /\ (st.log[k].err = "" /\ Len(st.log[k].rows) = 0)
                        => FailedWith(st, ErrNoRows)
                  /\ (st.log[k].err = "" /\ Len(st.log[k].rows) > 1)
                        => \E c \in CallsOf(st, "PgTableColumns") :
                              /\ st.log[c].args = <<st.log[k].rows[1], st.xoid>>
                              /\ st.log[c].err = ""
                                    => (st.ret.err = NoErr
                                          /\ st.ret.ret = st.log[c].rows)
            /\ \A k \in CallsOf(st, "PgTableColumns") :
                  st.log[k].err # "" => FailedWith(st, DbErr(st.log[k].err))

\* a call whose lookup was answered with the schemas of two sessions and
\* that returned columns all the same
C8_Witness ==
    LET st == worker[1]
    IN  /\ st.pc = "returned"
        /\ st.ret.err = NoErr
        /\ st.ret.ret # <<>>
        /\ \E k \in CallsOf(st, "QueryRow") :
              Len(st.log[k].rows) = 2 /\ st.log[k].rows[1] # st.log[k].rows[2]

CallFailed(e) == e.err # "" \/ (e.call = "QueryRow" /\ e.rows = <<>>)

\* C10: in one call of PgQueryColumns the statements come in a fixed order
\* and stop at the first failure: the namespace lookup only after the view
\* statement succeeded, the column listing only after the lookup succeeded
\* and for the schema it gave and the same relation name; no statement
\* drops the view, which is still in the catalog when the call has returned.
C10_OrderedNoCleanup ==
    \A w \in Workers :
        LET st == worker[w]
            log == st.log
        IN  /\ Len(log) <= 3
            /\ Len(log) >= 1 =>
                  /\ log[1].call = "Exec"
                  /\ log[1].sql = ViewQuery(st.xoid, inspect[w])
            /\ Len(log) >= 2 =>
                  /\ log[1].err = ""
                  /\ log[2].call = "QueryRow"
                  /\ log[2].args = <<st.xoid>>
            /\ Len(log) >= 3 =>
                  /\ ~CallFailed(log[2])
                  /\ log[3].call = "PgTableColumns"
                  /\ log[3].args = <<log[2].rows[1], st.xoid>>
            /\ \A k \in DOMAIN log :
                  CallFailed(log[k]) => (k = Len(log) /\ st.pc = "returned")
            /\ \A k \in CallsOf(st, "Exec") :
                  HasPrefix(log[k].sql, "CREATE TEMPORARY VIEW ")
            /\ (st.pc = "returned" /\ Len(log) >= 1 /\ log[1].err = "") =>
                  \E r \in pgClass :
                      /\ r.nspname = TempSchema(session[w])
                      /\ r.relname = st.xoid

\* a call returned the error of its column listing, and its view remains
C10_Witness ==
    \E w \in Workers :
        /\ worker[w].pc = "returned"
        /\ Len(worker[w].log) = 3
        /\ worker[w].log[3].err # ""
        /\ \E r \in pgClass : r.creator = w

=============================================================================
